---- MODULE Spec2Model ----
(***************************************************************************)
(* CrosswordCreator (generate.py): a crossword as a constraint             *)
(* satisfaction problem.  solve() enforces node consistency, runs AC-3     *)
(* and then a recursive backtracking search.  The recursion of backtrack   *)
(* is modelled by an explicit stack of frames; a Python exception that     *)
(* leaves solve() is the outcome "TypeError" / "IndexError".               *)
(*                                                                         *)
(* A word is a tuple of letters; Python index k is TLA+ index k + 1.       *)
(* A dict is a sequence of <<key, value>> pairs in insertion order.        *)
(* The iteration order of a Python set is not fixed by the language: the   *)
(* order of a set of variables is drawn as varOrder and that of a set of   *)
(* words as wordOrder, once per run, over every permutation.               *)
(***************************************************************************)
EXTENDS Integers, Sequences, FiniteSets, TLC

VARIABLES
    variables,    \* self.crossword.variables: the slots of the grid
    words,        \* self.crossword.words: the word pool
    varOrder,     \* iteration order of sets of variables (key order of self.domains)
    wordOrder,    \* iteration order of sets of words
    domains,      \* self.domains
    pc,           \* position inside solve()
    arcs,         \* the Queue of ac3
    ac3ret,       \* what ac3 returned: "unset", "True", "False"
    assignment,   \* the dict shared by every call of backtrack
    stack,        \* the active calls of backtrack that are inside their for loop:
                  \* var, values (the ordered list), k (position in it) and
                  \* entry (the assignment the call was entered with)
    retval,       \* value returned by the call of backtrack that just ended
    outcome,      \* how solve() ended: "running", "returned", "TypeError", "IndexError"
    probe,        \* argument of a direct call of consistent
    probeResult   \* what that call gave

vars == <<variables, words, varOrder, wordOrder, domains, pc, arcs, ac3ret,
          assignment, stack, retval, outcome, probe, probeResult>>

-----------------------------------------------------------------------------
(* Bounds and inputs *)

\* the largest word pool
MaxPool == 3

CAT == <<"C", "A", "T">>
DOG == <<"D", "O", "G">>
ART == <<"A", "R", "T">>
AA == <<"A", "A">>
CT == <<"C", "T">>
TC == <<"T", "C">>
AC == <<"A", "C">>

WordUniverse == {CAT, DOG, ART, AA, CT, TC, AC}

Pools == {p \in SUBSET WordUniverse : Cardinality(p) <= MaxPool}

Variable(i, j, direction, length) ==
    [i |-> i, j |-> j, direction |-> direction, length |-> length]

\* one isolated slot
GridSingle == {Variable(0, 0, "across", 3)}
\* A (across) and B (down), both of length 3, crossing at index 1 of each
GridCross == {Variable(1, 0, "across", 3), Variable(0, 1, "down", 3)}
\* two slots of length 2, index 0 of the across one on index 1 of the down one
GridCorner == {Variable(1, 0, "across", 2), Variable(0, 0, "down", 2)}
\* two across slots of length 2 hanging on a down slot of length 3
GridComb == {Variable(0, 0, "across", 2), Variable(2, 0, "across", 2),
             Variable(0, 0, "down", 3)}
\* two slots of length 2 that do not touch
GridApart == {Variable(0, 0, "across", 2), Variable(2, 0, "across", 2)}

\* a slot of length 3 and a slot of length 2 that do not touch
GridMixed == {Variable(0, 0, "across", 3), Variable(2, 0, "across", 2)}

\* three slots of length 2 in a staircase: across, down, across
GridStair == {Variable(0, 0, "across", 2), Variable(0, 1, "down", 2),
              Variable(1, 1, "across", 2)}

Grids == {GridSingle, GridCross, GridCorner, GridComb, GridApart, GridMixed, GridStair}

Perms(S) ==
    {f \in [1..Cardinality(S) -> S] : \A a, b \in DOMAIN f : a # b => f[a] # f[b]}

\* list(s) for a set s whose elements iterate in the order `order`
ListOf(S, order) == SelectSeq(order, LAMBDA e : e \in S)

-----------------------------------------------------------------------------
(* The constraint graph *)

\* the cell of position k of a slot
Cell(v, k) ==
    <<v.i + (IF v.direction = "down" THEN k ELSE 0),
      v.j + (IF v.direction = "across" THEN k ELSE 0)>>

\* self.crossword.overlaps[x, y]: <<i, j>>, or <<>> when x and y do not cross
overlaps(x, y) ==
    LET common == {ij \in (0..(x.length - 1)) \X (0..(y.length - 1)) :
                      Cell(x, ij[1]) = Cell(y, ij[2])}
    IN  IF x = y \/ common = {} THEN <<>> ELSE CHOOSE ij \in common : TRUE

\* self.crossword.neighbors(var)
neighbors(var) == {v \in variables : v # var /\ overlaps(v, var) # <<>>}

-----------------------------------------------------------------------------
(* Dicts as sequences of pairs *)

Keys(d) == {d[k][1] : k \in DOMAIN d}

Get(d, key) == d[CHOOSE k \in DOMAIN d : d[k][1] = key][2]

\* d[key] = value: a new key goes last, a key already held keeps its place
Put(d, key, value) ==
    IF key \in Keys(d)
    THEN [k \in DOMAIN d |-> IF d[k][1] = key THEN <<key, value>> ELSE d[k]]
    ELSE Append(d, <<key, value>>)

\* d.pop(key) that leaves the entry in place
Pop_keep(d, key) == d

\* d.pop(key)
Pop(d, key) == SelectSeq(d, LAMBDA e : e[1] # key)

-----------------------------------------------------------------------------
(* CrosswordCreator *)

\* __init__: every variable starts with a copy of the whole pool
InitialDomains == [var \in variables |-> words]

\* enforce_node_consistency that only discards the words that are too short
enforce_node_consistency_short ==
    [variable \in variables |->
        domains[variable] \ {word \in domains[variable] : Len(word) < variable.length}]

\* enforce_node_consistency: the domains it leaves
enforce_node_consistency ==
    [variable \in variables |->
        domains[variable] \ {word \in domains[variable] : Len(word) # variable.length}]

\* revise(x, y) that counts the values of y that differ at the overlap
revise_inverted(x, y) ==
    LET i == overlaps(x, y)[1]
        j == overlaps(x, y)[2]
        counter(xvalue) ==
            Cardinality({yvalue \in domains[y] : xvalue[i + 1] # yvalue[j + 1]})
        xval == domains[x] \ {xvalue \in domains[x] : counter(xvalue) = 0}
    IN  [domain |-> xval, revised |-> xval # domains[x]]

\* revise(x, y), with xval copied from the domain of y
revise_copy_y(x, y) ==
    LET i == overlaps(x, y)[1]
        j == overlaps(x, y)[2]
        counter(xvalue) ==
            Cardinality({yvalue \in domains[y] : xvalue[i + 1] = yvalue[j + 1]})
        xval == domains[y] \ {xvalue \in domains[x] : counter(xvalue) = 0}
    IN  [domain |-> xval, revised |-> xval # domains[x]]

\* revise(x, y) that never sets revised
revise_unflagged(x, y) ==
    LET i == overlaps(x, y)[1]
        j == overlaps(x, y)[2]
        counter(xvalue) ==
            Cardinality({yvalue \in domains[y] : xvalue[i + 1] = yvalue[j + 1]})
        xval == domains[x] \ {xvalue \in domains[x] : counter(xvalue) = 0}
    IN  [domain |-> xval, revised |-> FALSE]

\* revise(x, y) that reports a revision whatever it removed
revise_always(x, y) ==
    LET i == overlaps(x, y)[1]
        j == overlaps(x, y)[2]
        counter(xvalue) ==
            Cardinality({yvalue \in domains[y] : xvalue[i + 1] = yvalue[j + 1]})
        xval == domains[x] \ {xvalue \in domains[x] : counter(xvalue) = 0}
    IN  [domain |-> xval, revised |-> TRUE]

\* revise(x, y): the domain it leaves for x and the value it returns
revise(x, y) ==
    LET i == overlaps(x, y)[1]
        j == overlaps(x, y)[2]
        counter(xvalue) ==
            Cardinality({yvalue \in domains[y] : xvalue[i + 1] = yvalue[j + 1]})
        xval == domains[x] \ {xvalue \in domains[x] : counter(xvalue) = 0}
    IN  [domain |-> xval, revised |-> xval # domains[x]]

\* ac3 with arcs = None: the queue before the loop
InitialArcs ==
    LET ArcsOf(value) ==
            LET ns == ListOf(neighbors(value), varOrder)
            IN  [k \in 1..Len(ns) |-> <<value, ns[k]>>]
        RECURSIVE Fill(_)
        Fill(k) == IF k > Len(varOrder) THEN <<>>
                   ELSE ArcsOf(varOrder[k]) \o Fill(k + 1)
    IN  Fill(1)

\* ac3 that puts no arc back on the queue
Requeued_none(v, p, result) == <<>>

\* ac3 that puts back the arcs of every neighbour of v but p
Requeued_others(v, p, result) ==
    IF result
    THEN LET ns == ListOf(neighbors(v) \ {p}, varOrder)
         IN  [k \in 1..Len(ns) |-> <<ns[k], v>>]
    ELSE <<>>

\* ac3: the arcs put on the queue after revise(v, p) returned result
Requeued(v, p, result) ==
    IF result
    THEN LET ns == ListOf(neighbors(v), varOrder)
         IN  [k \in 1..Len(ns) |-> <<ns[k], v>>]
    ELSE <<>>

\* ac3: the value returned once the queue is empty
Ac3Value == IF \E value \in variables : Cardinality(domains[value]) = 0
            THEN "False" ELSE "True"

\* assignment_complete(assignment)
assignment_complete(asg) == \A spot \in variables : spot \in Keys(asg)

\* consistent(assignment) without the check of the words already seen
consistent_nodup(asg) ==
    LET RECURSIVE Layers(_, _, _)
        Layers(word, layers, n) ==
            IF n > Len(layers) THEN "True"
            ELSE LET layer == layers[n]
                     i == overlaps(word, layer)[1]
                     j == overlaps(word, layer)[2]
                 IN  IF j + 1 > Len(Get(asg, layer)) THEN "IndexError"
                     ELSE IF Get(asg, word)[i + 1] # Get(asg, layer)[j + 1] THEN "False"
                     ELSE Layers(word, layers, n + 1)
        RECURSIVE Loop(_)
        Loop(k) ==
            IF k > Len(asg) THEN "True"
            ELSE LET word == asg[k][1]
                     temp == {x \in variables : x \notin Keys(asg)}
                     layers == ListOf({x \in neighbors(word) : x \notin temp}, varOrder)
                 IN  IF word.length # Len(asg[k][2]) THEN "False"
                     ELSE IF Layers(word, layers, 1) # "True"
                          THEN Layers(word, layers, 1)
                     ELSE Loop(k + 1)
    IN  Loop(1)

\* consistent(assignment): "True", "False", or "IndexError" when
\* assignment[layer][j] reads past the end of a word
consistent(asg) ==
    LET RECURSIVE Layers(_, _, _)
        \* the loop over the assigned neighbours of `word`
        Layers(word, layers, n) ==
            IF n > Len(layers) THEN "True"
            ELSE LET layer == layers[n]
                     i == overlaps(word, layer)[1]
                     j == overlaps(word, layer)[2]
                 IN  IF j + 1 > Len(Get(asg, layer)) THEN "IndexError"
                     ELSE IF Get(asg, word)[i + 1] # Get(asg, layer)[j + 1] THEN "False"
                     ELSE Layers(word, layers, n + 1)
        RECURSIVE Loop(_, _)
        \* the loop over the keys of the assignment; done holds the words seen
        Loop(k, done) ==
            IF k > Len(asg) THEN "True"
            ELSE LET word == asg[k][1]
                     temp == {x \in variables : x \notin Keys(asg)}
                     layers == ListOf({x \in neighbors(word) : x \notin temp}, varOrder)
                 IN  IF word.length # Len(asg[k][2]) THEN "False"
                     ELSE IF asg[k][2] \in done THEN "False"
                     ELSE IF Layers(word, layers, 1) # "True"
                          THEN Layers(word, layers, 1)
                     ELSE Loop(k + 1, done \cup {asg[k][2]})
    IN  Loop(1, {})

\* sort(word, var) that counts the neighbouring values that word agrees with
sort_agreeing(word, var) ==
    Cardinality({mv \in {<<match, val>> : match \in neighbors(var), val \in words} :
        /\ mv[2] \in domains[mv[1]]
        /\ word[overlaps(var, mv[1])[1] + 1] = mv[2][overlaps(var, mv[1])[2] + 1]})

\* sort(word, var): the number of neighbouring values that word rules out
sort(word, var) ==
    Cardinality({mv \in {<<match, val>> : match \in neighbors(var), val \in words} :
        /\ mv[2] \in domains[mv[1]]
        /\ word[overlaps(var, mv[1])[1] + 1] # mv[2][overlaps(var, mv[1])[2] + 1]})

\* order_domain_values(var, assignment) that lists the whole vocabulary
order_domain_values_pool(var, asg) == ListOf(words, wordOrder)

\* order_domain_values(var, assignment): list(self.domains[var]) put in
\* ascending order of sort(x, var) by a stable sort
order_domain_values(var, asg) ==
    LET ordered == ListOf(domains[var], wordOrder)
        RECURSIVE Insert(_, _)
        Insert(sorted, e) ==
            IF sorted = <<>> THEN <<e>>
            ELSE IF sort(sorted[Len(sorted)], var) <= sort(e, var) THEN Append(sorted, e)
            ELSE Append(Insert(SubSeq(sorted, 1, Len(sorted) - 1), e), sorted[Len(sorted)])
        RECURSIVE Build(_)
        Build(n) == IF n = 0 THEN <<>> ELSE Insert(Build(n - 1), ordered[n])
    IN  Build(Len(ordered))

\* None, as returned in place of a variable
NoVariable == Variable(0, 0, "None", 0)

\* select_unassigned_variable(assignment) that keeps the largest domain
select_unassigned_variable_max(asg) ==
    LET options == ListOf(variables \ Keys(asg), varOrder)
        RECURSIVE Scan(_, _)
        Scan(n, min) ==
            IF n > Len(options) THEN min
            ELSE LET option == options[n]
                     comp == Cardinality(domains[option])
                     minval == Cardinality(domains[min])
                 IN  IF comp = minval
                     THEN IF /\ neighbors(min) \subseteq neighbors(option)
                             /\ neighbors(min) # neighbors(option)
                          THEN Scan(n + 1, option)
                          ELSE Scan(n + 1, min)
                     ELSE IF comp > minval THEN Scan(n + 1, option)
                     ELSE Scan(n + 1, min)
    IN  IF Len(options) = 0 THEN NoVariable ELSE Scan(2, options[1])

\* select_unassigned_variable(assignment) that also offers the assigned variables
select_unassigned_variable_any(asg) ==
    LET options == ListOf(variables, varOrder)
        RECURSIVE Scan(_, _)
        Scan(n, min) ==
            IF n > Len(options) THEN min
            ELSE LET option == options[n]
                     comp == Cardinality(domains[option])
                     minval == Cardinality(domains[min])
                 IN  IF comp = minval
                     THEN IF /\ neighbors(min) \subseteq neighbors(option)
                             /\ neighbors(min) # neighbors(option)
                          THEN Scan(n + 1, option)
                          ELSE Scan(n + 1, min)
                     ELSE IF comp < minval THEN Scan(n + 1, option)
                     ELSE Scan(n + 1, min)
    IN  IF Len(options) = 0 THEN NoVariable ELSE Scan(2, options[1])

\* select_unassigned_variable(assignment)
select_unassigned_variable(asg) ==
    LET options == ListOf(variables \ Keys(asg), varOrder)
        RECURSIVE Scan(_, _)
        \* the loop over options[1:], min being the choice so far
        Scan(n, min) ==
            IF n > Len(options) THEN min
            ELSE LET option == options[n]
                     comp == Cardinality(domains[option])
                     minval == Cardinality(domains[min])
                 IN  IF comp = minval
                     THEN IF /\ neighbors(min) \subseteq neighbors(option)
                             /\ neighbors(min) # neighbors(option)
                          THEN Scan(n + 1, option)
                          ELSE Scan(n + 1, min)
                     ELSE IF comp < minval THEN Scan(n + 1, option)
                     ELSE Scan(n + 1, min)
    IN  IF Len(options) = 0 THEN NoVariable ELSE Scan(2, options[1])

-----------------------------------------------------------------------------
(* solve() as a state machine *)

Init ==
    /\ variables \in Grids
    /\ words \in Pools
    /\ varOrder \in Perms(variables)
    /\ wordOrder \in Perms(words)
    /\ domains = InitialDomains
    /\ pc = "solve"
    /\ arcs = <<>>
    /\ ac3ret = "unset"
    /\ assignment = <<>>
    /\ stack = <<>>
    /\ retval = "unset"
    /\ outcome = "running"
    /\ probe = <<>>
    /\ probeResult = "unset"

\* solve: self.enforce_node_consistency()
NodeConsistency ==
    /\ pc = "solve"
    /\ domains' = enforce_node_consistency
    /\ pc' = "ac3"
    /\ UNCHANGED <<variables, words, varOrder, wordOrder, arcs, ac3ret, assignment,
                   stack, retval, outcome, probe, probeResult>>

\* ac3: arcs is None, the queue is filled with every arc
Ac3Begin ==
    /\ pc = "ac3"
    /\ arcs' = InitialArcs
    /\ pc' = "ac3_loop"
    /\ UNCHANGED <<variables, words, varOrder, wordOrder, domains, ac3ret, assignment,
                   stack, retval, outcome, probe, probeResult>>

\* ac3: one turn of the while loop
Ac3Revise ==
    /\ pc = "ac3_loop"
    /\ arcs # <<>>
    /\ LET v == Head(arcs)[1]
           p == Head(arcs)[2]
           result == revise(v, p)
       IN  /\ domains' = [domains EXCEPT ![v] = result.domain]
           /\ arcs' = Tail(arcs) \o Requeued(v, p, result.revised)
    /\ UNCHANGED <<variables, words, varOrder, wordOrder, pc, ac3ret, assignment,
                   stack, retval, outcome, probe, probeResult>>

\* ac3: the queue is empty, ac3 returns; solve calls backtrack(dict())
Ac3End ==
    /\ pc = "ac3_loop"
    /\ arcs = <<>>
    /\ ac3ret' = Ac3Value
    /\ pc' = "call"
    /\ UNCHANGED <<variables, words, varOrder, wordOrder, domains, arcs, assignment,
                   stack, retval, outcome, probe, probeResult>>

\* backtrack: entry of a call, up to the start of its for loop
BacktrackCall ==
    /\ pc = "call"
    /\ IF assignment_complete(assignment)
       THEN /\ retval' = "assignment"
            /\ pc' = "return"
            /\ stack' = stack
       ELSE \E var \in {select_unassigned_variable(assignment)} :
                /\ stack' = Append(stack, [var |-> var,
                                           values |-> order_domain_values(var, assignment),
                                           k |-> 1,
                                           entry |-> assignment])
                /\ pc' = "loop"
                /\ retval' = retval
    /\ UNCHANGED <<variables, words, varOrder, wordOrder, domains, arcs, ac3ret,
                   assignment, outcome, probe, probeResult>>

\* backtrack: the for loop takes its next value, assignment[var] = value
BacktrackAssign ==
    /\ pc = "loop"
    /\ LET frame == stack[Len(stack)]
       IN  /\ frame.k <= Len(frame.values)
           /\ assignment' = Put(assignment, frame.var, frame.values[frame.k])
    /\ pc' = "check"
    /\ UNCHANGED <<variables, words, varOrder, wordOrder, domains, arcs, ac3ret,
                   stack, retval, outcome, probe, probeResult>>

\* backtrack: if self.consistent(assignment), else assignment.pop(var)
BacktrackCheck ==
    /\ pc = "check"
    /\ \E ok \in {consistent(assignment)} :
       LET frame == stack[Len(stack)]
       IN  IF ok = "True"
           THEN /\ pc' = "call"
                /\ UNCHANGED <<assignment, stack, outcome>>
           ELSE IF ok = "False"
           THEN /\ assignment' = Pop(assignment, frame.var)
                /\ stack' = [stack EXCEPT ![Len(stack)].k = frame.k + 1]
                /\ pc' = "loop"
                /\ UNCHANGED outcome
           ELSE /\ outcome' = ok
                /\ pc' = "done"
                /\ UNCHANGED <<assignment, stack>>
    /\ UNCHANGED <<variables, words, varOrder, wordOrder, domains, arcs, ac3ret,
                   retval, probe, probeResult>>

\* backtrack: the for loop has no value left, return None
BacktrackFail ==
    /\ pc = "loop"
    /\ stack[Len(stack)].k > Len(stack[Len(stack)].values)
    /\ stack' = SubSeq(stack, 1, Len(stack) - 1)
    /\ retval' = "None"
    /\ pc' = "return"
    /\ UNCHANGED <<variables, words, varOrder, wordOrder, domains, arcs, ac3ret,
                   assignment, outcome, probe, probeResult>>

\* self.consistent(result) for the value the recursive call returned:
\* iterating None raises TypeError
consistent_result(result) ==
    IF result = "None" THEN "TypeError" ELSE consistent(assignment)

\* backtrack: the recursive call has returned into the for loop of its caller
BacktrackResult ==
    /\ pc = "return"
    /\ stack # <<>>
    /\ \E ok \in {consistent_result(retval)} :
       LET frame == stack[Len(stack)]
       IN  IF ok = "True"
           THEN /\ stack' = SubSeq(stack, 1, Len(stack) - 1)
                /\ pc' = "return"
                /\ UNCHANGED <<assignment, outcome>>
           ELSE IF ok = "False"
           THEN /\ assignment' = Pop(assignment, frame.var)
                /\ stack' = [stack EXCEPT ![Len(stack)].k = frame.k + 1]
                /\ pc' = "loop"
                /\ UNCHANGED outcome
           ELSE /\ outcome' = ok
                /\ pc' = "done"
                /\ UNCHANGED <<assignment, stack>>
    /\ UNCHANGED <<variables, words, varOrder, wordOrder, domains, arcs, ac3ret,
                   retval, probe, probeResult>>

\* solve: the root call of backtrack has returned
SolveReturn ==
    /\ pc = "return"
    /\ stack = <<>>
    /\ outcome' = "returned"
    /\ pc' = "done"
    /\ UNCHANGED <<variables, words, varOrder, wordOrder, domains, arcs, ac3ret,
                   assignment, stack, retval, probe, probeResult>>

Next ==
    \/ NodeConsistency
    \/ Ac3Begin
    \/ Ac3Revise
    \/ Ac3End
    \/ BacktrackCall
    \/ BacktrackAssign
    \/ BacktrackCheck
    \/ BacktrackFail
    \/ BacktrackResult
    \/ SolveReturn

Spec == Init /\ [][Next]_vars

\* the runs of solve() in which the word set iterates in one order
InitFair ==
    /\ Init
    /\ wordOrder = ListOf(words, <<CAT, DOG, ART, AA, CT, TC, AC>>)

\* solve() runs on one thread: a step that can be taken is taken
FairSpec == InitFair /\ [][Next]_vars /\ WF_vars(Next)

-----------------------------------------------------------------------------
(* consistent() called directly on an arbitrary partial assignment *)

\* every dict from some of the variables to words of the pool, in every key order
PartialAssignments ==
    UNION {{d \in [1..n -> variables \X words] :
               \A a, b \in 1..n : a # b => d[a][1] # d[b][1]} :
           n \in 0..Cardinality(variables)}

InitProbe ==
    /\ variables \in Grids
    /\ words \in Pools
    /\ varOrder \in Perms(variables)
    /\ wordOrder = ListOf(words, <<CAT, DOG, ART, AA, CT, TC, AC>>)
    /\ domains = InitialDomains
    /\ pc = "probe"
    /\ arcs = <<>>
    /\ ac3ret = "unset"
    /\ assignment = <<>>
    /\ stack = <<>>
    /\ retval = "unset"
    /\ outcome = "running"
    /\ probe \in PartialAssignments
    /\ probeResult = "unset"

ProbeConsistent ==
    /\ pc = "probe"
    /\ probeResult' = consistent(probe)
    /\ pc' = "probed"
    /\ UNCHANGED <<variables, words, varOrder, wordOrder, domains, arcs, ac3ret,
                   assignment, stack, retval, outcome, probe>>

NextProbe == ProbeConsistent

SpecProbe == InitProbe /\ [][NextProbe]_vars

-----------------------------------------------------------------------------
(* select_unassigned_variable() and order_domain_values() called directly *)

\* the domains that pruning can leave: any words of the slot's length
PrunedDomains ==
    {d \in [variables -> SUBSET words] :
        \A v \in variables : \A w \in d[v] : Len(w) = v.length}

\* a dict that holds the variables of S, each with the first word of the pool
DictOver(S) ==
    LET keys == ListOf(S, varOrder)
    IN  [k \in 1..Len(keys) |-> <<keys[k], wordOrder[1]>>]

\* the arguments of select_unassigned_variable (only the keys of the
\* assignment are read) and of order_domain_values (the assignment is not
\* read); neither reads a pool word that fits no slot
InitHeuristic ==
    /\ variables \in Grids
    /\ words \in {p \in Pools \ {{}} : \A w \in p : \E v \in variables : Len(w) = v.length}
    /\ \/ /\ pc = "select"
          /\ varOrder \in Perms(variables)
          /\ wordOrder = ListOf(words, <<CAT, DOG, ART, AA, CT, TC, AC>>)
          /\ probe \in {DictOver(S) : S \in SUBSET variables}
       \/ /\ pc = "order"
          /\ varOrder = ListOf(variables, <<Variable(0, 0, "across", 2),
                                            Variable(0, 0, "across", 3),
                                            Variable(1, 0, "across", 2),
                                            Variable(1, 0, "across", 3),
                                            Variable(1, 1, "across", 2),
                                            Variable(2, 0, "across", 2),
                                            Variable(0, 0, "down", 2),
                                            Variable(0, 0, "down", 3),
                                            Variable(0, 1, "down", 2),
                                            Variable(0, 1, "down", 3)>>)
          /\ wordOrder \in Perms(words)
          /\ probe = <<>>
    /\ domains \in PrunedDomains
    /\ arcs = <<>>
    /\ ac3ret = "unset"
    /\ assignment = <<>>
    /\ stack = <<>>
    /\ retval = "unset"
    /\ outcome = "running"
    /\ probeResult = "unset"

ProbeSelect ==
    /\ pc = "select"
    /\ probeResult' = select_unassigned_variable(probe)
    /\ pc' = "selected"
    /\ UNCHANGED <<variables, words, varOrder, wordOrder, domains, arcs, ac3ret,
                   assignment, stack, retval, outcome, probe>>

ProbeOrder ==
    /\ pc = "order"
    /\ \E var \in variables :
          probeResult' = [var |-> var, values |-> order_domain_values(var, probe)]
    /\ pc' = "ordered"
    /\ UNCHANGED <<variables, words, varOrder, wordOrder, domains, arcs, ac3ret,
                   assignment, stack, retval, outcome, probe>>

NextHeuristic == ProbeSelect \/ ProbeOrder

SpecHeuristic == InitHeuristic /\ [][NextHeuristic]_vars

-----------------------------------------------------------------------------
(* What the constraints ask of an assignment, stated on their own *)

\* the dict assigns a word to every slot
Complete(asg) == Keys(asg) = variables

LengthsFit(asg) == \A k \in DOMAIN asg : Len(asg[k][2]) = asg[k][1].length

NoWordTwice(asg) == \A a, b \in DOMAIN asg : a # b => asg[a][2] # asg[b][2]

OverlapsAgree(asg) ==
    \A a, b \in DOMAIN asg :
        overlaps(asg[a][1], asg[b][1]) # <<>> =>
            asg[a][2][overlaps(asg[a][1], asg[b][1])[1] + 1]
                = asg[b][2][overlaps(asg[a][1], asg[b][1])[2] + 1]

Satisfies(asg) == LengthsFit(asg) /\ NoWordTwice(asg) /\ OverlapsAgree(asg)

\* the dict of a function from the variables to words
AsDict(f) == [k \in 1..Len(varOrder) |-> <<varOrder[k], f[varOrder[k]]>>]

\* some complete assignment over the pool satisfies every constraint
SolutionExists == \E f \in [variables -> words] : Satisfies(AsDict(f))

\* solve() has ended by returning a value
Returned == pc = "done" /\ outcome = "returned"

\* ac3 has returned
AfterAc3 == pc \in {"call", "loop", "check", "return", "done"}

-----------------------------------------------------------------------------
(* Claims *)

\* C1: whenever solve() returns an assignment (not None), the assignment
\* gives a word to every slot, every word has the length of its slot, no
\* word is used twice and neighbouring slots agree at their overlap.
SolveSound ==
    (Returned /\ retval = "assignment") =>
        Complete(assignment) /\ Satisfies(assignment)

\* solve() returned an assignment for a grid of several slots
SolveSoundWitness ==
    /\ Returned /\ retval = "assignment"
    /\ Cardinality(variables) >= 2
    /\ \E v \in variables : neighbors(v) # {}

\* C2: if some complete assignment over the pool satisfies the
\* constraints, solve() returns a complete assignment that satisfies them.
SolveTotal ==
    (pc = "done" /\ SolutionExists) =>
        /\ outcome = "returned" /\ retval = "assignment"
        /\ Complete(assignment) /\ Satisfies(assignment)

\* C3: if no complete assignment satisfies the constraints, solve()
\* returns None and raises no error.
NoSolutionReturnsNone ==
    (pc = "done" /\ ~SolutionExists) => (outcome = "returned" /\ retval = "None")

\* C4: once ac3 has returned False, solve() goes on into backtrack, raises
\* no error and returns None.
EmptyDomainsReturnNone ==
    ac3ret = "False" =>
        /\ AfterAc3
        /\ outcome \in {"running", "returned"}
        /\ pc = "done" => (outcome = "returned" /\ retval = "None")

\* ac3 returned False with a domain still holding a word, and solve() ended
EmptyDomainsWitness ==
    /\ ac3ret = "False" /\ pc = "done"
    /\ \E v \in variables : domains[v] # {}

\* every value of every domain has a support in the domain of every neighbour
ArcConsistent ==
    \A x \in variables : \A y \in neighbors(x) :
        LET i == overlaps(x, y)[1]
            j == overlaps(x, y)[2]
        IN  \A w \in domains[x] : \E v \in domains[y] : w[i + 1] = v[j + 1]

\* C5: when ac3() has returned True, every word of domain(x) has, for every
\* neighbour y of x, a word of domain(y) with the same letter at the overlap.
Ac3Sound == (AfterAc3 /\ ac3ret = "True") => ArcConsistent

\* ac3 returned True after pruning a word from a slot that has a neighbour
Ac3SoundWitness ==
    /\ AfterAc3 /\ ac3ret = "True"
    /\ \E x \in variables :
          /\ neighbors(x) # {}
          /\ \E w \in words : Len(w) = x.length /\ w \notin domains[x]

\* C6: no step of solve adds a word to a domain, and the steps of
\* backtrack leave the domains as they are.
DomainsOnlyShrink ==
    [][/\ \A s \in variables : domains'[s] \subseteq domains[s]
       /\ AfterAc3 => domains' = domains]_vars

\* ac3 pruned a word of the right length and backtrack then undid a choice
DomainsOnlyShrinkWitness ==
    /\ pc = "loop" /\ stack[Len(stack)].k > 1
    /\ \E s \in variables : \E w \in words : Len(w) = s.length /\ w \notin domains[s]

\* C7: right after enforce_node_consistency() every domain is exactly the
\* set of pool words of the slot's length, and in every later state every
\* word of a domain has the length of its slot.
NodeConsistent ==
    /\ pc = "ac3" =>
          \A s \in variables : domains[s] = {w \in words : Len(w) = s.length}
    /\ pc # "solve" =>
          \A s \in variables : \A w \in domains[s] : Len(w) = s.length

\* enforce_node_consistency has removed a word from a domain and kept another
NodeConsistentWitness ==
    /\ pc = "ac3"
    /\ \E s \in variables : domains[s] # {} /\ domains[s] # words

\* C8: consistent(assignment) returns True exactly when every assigned word
\* has the length of its slot, no two slots hold the same word and every
\* pair of assigned neighbouring slots agrees at its overlap; for every
\* partial assignment it returns True or False.
ConsistentExact ==
    pc = "probed" =>
        /\ probeResult \in {"True", "False"}
        /\ probeResult = "True" <=> Satisfies(probe)

\* x and y cross and no word of x's length and word of y's length, other
\* than one word taken twice, hold the same letter at the overlap
CrossingUnsatDistinct ==
    \E x \in variables : \E y \in neighbors(x) :
        LET i == overlaps(x, y)[1]
            j == overlaps(x, y)[2]
        IN  ~ \E w \in {w \in words : Len(w) = x.length} :
                \E v \in {v \in words : Len(v) = y.length} :
                    w # v /\ w[i + 1] = v[j + 1]

\* x and y cross and no word of x's length and word of y's length, the same
\* word or not, hold the same letter at the overlap
CrossingUnsat ==
    \E x \in variables : \E y \in neighbors(x) :
        LET i == overlaps(x, y)[1]
            j == overlaps(x, y)[2]
        IN  ~ \E w \in {w \in words : Len(w) = x.length} :
                \E v \in {v \in words : Len(v) = y.length} :
                    w[i + 1] = v[j + 1]

\* ac3 returned False with an empty domain, and solve(), once ended, returned None
Ac3FalseSolveNone ==
    /\ ac3ret = "False" /\ \E s \in variables : domains[s] = {}
    /\ pc = "done" => (outcome = "returned" /\ retval = "None")

\* C9 as claimed: if two crossing slots have no two distinct pool words
\* that agree at the overlap, ac3() returns False with an empty domain and
\* solve() returns None.
UnsatCrossingDistinctFails ==
    (AfterAc3 /\ CrossingUnsatDistinct) => Ac3FalseSolveNone

\* C9: if two crossing slots have no two pool words, distinct or the same
\* word taken twice, that agree at the overlap, ac3() returns False with an
\* empty domain and solve() returns None.
UnsatCrossingFails == (AfterAc3 /\ CrossingUnsat) => Ac3FalseSolveNone

\* solve() ended on a pool that has words of the crossing slots' lengths
UnsatCrossingWitness ==
    /\ CrossingUnsat /\ pc = "done"
    /\ \E x \in variables : \E y \in neighbors(x) :
          /\ \E w \in words : Len(w) = x.length
          /\ \E v \in words : Len(v) = y.length

\* slot A across and slot B down, of length 3, crossing at index 1 of
\* each, with the pool {CAT, DOG, ART}
TrivialCrossing == variables = GridCross /\ words = {CAT, DOG, ART}

\* C10 as claimed: in the trivial crossing solve() returns an assignment
\* that gives A and B words of the pool with the same letter at index 1.
TrivialCrossingSolved ==
    (TrivialCrossing /\ pc = "done") =>
        /\ outcome = "returned" /\ retval = "assignment"
        /\ Complete(assignment)
        /\ \A k \in DOMAIN assignment : assignment[k][2] \in words
        /\ OverlapsAgree(assignment)

\* C10: in the trivial crossing solve() never returns an assignment: the
\* only words that agree at index 1 are one word taken twice, no assignment
\* ever holds both slots with backtrack satisfied, and backtrack returns
\* nothing but None.
TrivialCrossingUnsolved ==
    TrivialCrossing =>
        /\ ~SolutionExists
        /\ retval # "assignment"
        /\ pc = "call" => Len(assignment) < 2

\* the trivial crossing ran to its end, with both slots tried
TrivialCrossingWitness ==
    TrivialCrossing /\ pc = "done" /\ Len(stack) >= 1 /\ Len(assignment) >= 1

\* the slots that the assignment leaves without a word
Unassigned(asg) == variables \ Keys(asg)

\* the unassigned slots with the fewest remaining values
Tied(asg) ==
    {t \in Unassigned(asg) :
        \A u \in Unassigned(asg) : Cardinality(domains[t]) <= Cardinality(domains[u])}

\* C11: select_unassigned_variable(assignment) returns a slot that is not
\* in the assignment and whose domain is the smallest among the unassigned
\* slots, and None when every slot is assigned.
MinimumRemainingValues ==
    pc = "selected" =>
        IF Unassigned(probe) = {}
        THEN probeResult = NoVariable
        ELSE probeResult \in Tied(probe)

\* the scan moved off its first option to a strictly smaller domain, with
\* part of the slots assigned
MinimumRemainingValuesWitness ==
    /\ pc = "selected" /\ probe # <<>>
    /\ Cardinality(Unassigned(probe)) >= 2
    /\ probeResult # ListOf(Unassigned(probe), varOrder)[1]
    /\ \E u \in Unassigned(probe) :
          Cardinality(domains[u]) > Cardinality(domains[probeResult])

\* every slot is assigned and None came back
MinimumRemainingNoneWitness ==
    pc = "selected" /\ Unassigned(probe) = {} /\ probeResult = NoVariable

\* C12: when several unassigned slots tie for the smallest domain,
\* select_unassigned_variable returns one of them with the highest number
\* of neighbours among the tied slots.
DegreeTieBreak ==
    (pc = "selected" /\ Unassigned(probe) # {}) =>
        \A t \in Tied(probe) :
            Cardinality(neighbors(probeResult)) >= Cardinality(neighbors(t))

\* the rule-out count of w for var: over every neighbour n, the number of
\* words of domain(n) that differ from w at the overlap
RuleOut(w, var) ==
    LET ns == ListOf(neighbors(var), varOrder)
        Differing(n) ==
            LET i == overlaps(var, n)[1]
                j == overlaps(var, n)[2]
            IN  {v \in domains[n] : w[i + 1] # v[j + 1]}
        RECURSIVE Sum(_)
        Sum(k) == IF k > Len(ns) THEN 0 ELSE Cardinality(Differing(ns[k])) + Sum(k + 1)
    IN  Sum(1)

\* C13: order_domain_values(var, assignment) returns every word of
\* domain(var) exactly once and nothing else, in non-decreasing order of
\* rule-out count.
LeastConstrainingOrder ==
    pc = "ordered" =>
        LET var == probeResult.var
            values == probeResult.values
            count == [w \in domains[var] |-> RuleOut(w, var)]
        IN  /\ Len(values) = Cardinality(domains[var])
            /\ {values[k] : k \in DOMAIN values} = domains[var]
            /\ \A k \in 1..(Len(values) - 1) :
                  count[values[k]] <= count[values[k + 1]]

\* the sort moved a word with a lower rule-out count ahead of the word that
\* the set iterates first
LeastConstrainingOrderWitness ==
    /\ pc = "ordered"
    /\ Len(probeResult.values) >= 2
    /\ probeResult.values # ListOf(domains[probeResult.var], wordOrder)
    /\ RuleOut(probeResult.values[1], probeResult.var)
          < RuleOut(probeResult.values[Len(probeResult.values)], probeResult.var)

\* the words of domain(x) that some word of domain(y) agrees with at the overlap
Supported(x, y) ==
    {w \in domains[x] :
        \E v \in domains[y] : w[overlaps(x, y)[1] + 1] = v[overlaps(x, y)[2] + 1]}

\* C14: revise is exact: a turn of the ac3 loop that calls revise(x, y) leaves
\* in domain(x) exactly the words that domain(y) supported at call time, leaves
\* every other domain as it was, and revise returns true (the queue gets the
\* arcs towards x) if and only if a word was removed.
ReviseExact ==
    [][(pc = "ac3_loop" /\ arcs # <<>>) =>
          LET x == Head(arcs)[1]
              y == Head(arcs)[2]
          IN  /\ domains'[x] = Supported(x, y)
              /\ \A s \in variables \ {x} : domains'[s] = domains[s]
              /\ (arcs' # Tail(arcs)) <=> (Supported(x, y) # domains[x])]_vars

\* revise has removed a word from a domain and left another word in it
ReviseExactWitness ==
    /\ pc = "ac3_loop"
    /\ \E s \in variables :
          /\ domains[s] # {}
          /\ domains[s] # {w \in words : Len(w) = s.length}
    /\ Len(arcs) >= 2

\* C15: when the dequeued arc (x, y) is revised and a value was pruned from
\* domain(x), the arcs enqueued are exactly (z, x) for every neighbour z of x
\* other than y, (y, x) is not among them, and nothing is enqueued when
\* nothing was pruned.
RequeueAllButY ==
    [][(pc = "ac3_loop" /\ arcs # <<>>) =>
          LET x == Head(arcs)[1]
              y == Head(arcs)[2]
              added == SubSeq(arcs', Len(arcs), Len(arcs'))
          IN  /\ SubSeq(arcs', 1, Len(arcs) - 1) = Tail(arcs)
              /\ IF domains'[x] # domains[x]
                 THEN /\ {added[k] : k \in DOMAIN added}
                           = {<<z, x>> : z \in neighbors(x) \ {y}}
                      /\ Len(added) = Cardinality(neighbors(x) \ {y})
                 ELSE added = <<>>]_vars

\* C15, amended: when a value was pruned from domain(x), the arcs enqueued
\* are exactly (z, x) for every neighbour z of x, y included, each once;
\* nothing is enqueued when nothing was pruned.
RequeueAllNeighbours ==
    [][(pc = "ac3_loop" /\ arcs # <<>>) =>
          LET x == Head(arcs)[1]
              y == Head(arcs)[2]
              added == SubSeq(arcs', Len(arcs), Len(arcs'))
          IN  /\ SubSeq(arcs', 1, Len(arcs) - 1) = Tail(arcs)
              /\ IF domains'[x] # domains[x]
                 THEN /\ {added[k] : k \in DOMAIN added}
                           = {<<z, x>> : z \in neighbors(x)}
                      /\ <<y, x>> \in {added[k] : k \in DOMAIN added}
                      /\ Len(added) = Cardinality(neighbors(x))
                 ELSE added = <<>>]_vars

\* a pruning revise has put arcs back: the queue is at least as long as the
\* queue ac3 started from, and it is not that queue
RequeueWitness ==
    /\ pc = "ac3_loop"
    /\ InitialArcs # <<>>
    /\ Len(arcs) >= Len(InitialArcs)
    /\ arcs # InitialArcs

\* C16: undo on failure: a call of backtrack that returns None leaves the
\* assignment as it was when the call was entered; each descent adds exactly
\* one entry, for the selected slot, and each backtrack removes exactly it.
UndoOnFailure ==
    [][/\ (pc = "loop" /\ pc' = "return") =>
             /\ retval' = "None"
             /\ assignment' = stack[Len(stack)].entry
       /\ (pc = "loop" /\ pc' = "check") =>
             assignment' = Append(stack[Len(stack)].entry,
                                  <<stack[Len(stack)].var,
                                    stack[Len(stack)].values[stack[Len(stack)].k]>>)
       /\ (pc \in {"check", "return"} /\ pc' = "loop") =>
             /\ Len(assignment') = Len(assignment) - 1
             /\ assignment' = stack[Len(stack)].entry]_vars

\* a nested call has tried every value of its slot, undone each, and is about
\* to return None with the assignment it was entered with
UndoOnFailureWitness ==
    /\ pc = "loop"
    /\ Len(stack) >= 2
    /\ stack[Len(stack)].k > Len(stack[Len(stack)].values)
    /\ stack[Len(stack)].k >= 3
    /\ assignment = stack[Len(stack)].entry
    /\ assignment # <<>>

\* C17: at every entry to backtrack, the root call and every recursive call,
\* the partial assignment is consistent (no word given to two slots, assigned
\* neighbours agree at their overlap, every word has its slot's length) and
\* every assigned word is in the current domain of its slot.
EntryInvariant ==
    pc = "call" =>
        /\ Satisfies(assignment)
        /\ \A k \in DOMAIN assignment : assignment[k][2] \in domains[assignment[k][1]]

\* a recursive call is entered with two neighbouring slots assigned, after
\* ac3 has pruned the domain of one of them
EntryInvariantWitness ==
    /\ pc = "call"
    /\ \E a, b \in DOMAIN assignment :
          /\ assignment[a][1] \in neighbors(assignment[b][1])
          /\ domains[assignment[a][1]] # {w \in words : Len(w) = assignment[a][1].length}

\* C18: backtracking terminates: backtrack(empty assignment) eventually
\* finishes; every recursive call is entered with an assignment exactly one
\* entry larger than its caller's, so the recursion depth never exceeds the
\* number of slots; each call tries each word of the selected slot's domain
\* at most once.
BacktrackTerminates ==
    /\ (pc = "call" /\ stack = <<>>) ~> (pc = "done")
    /\ [](/\ (pc = "call" /\ stack # <<>>) =>
                Len(assignment) = Len(stack[Len(stack)].entry) + 1
          /\ (pc = "call" /\ stack = <<>>) => assignment = <<>>
          /\ Len(stack) <= Cardinality(variables)
          /\ \A n \in DOMAIN stack :
                /\ Len(stack[n].entry) = n - 1
                /\ Len(stack[n].values) = Cardinality(domains[stack[n].var])
                /\ \A a, b \in DOMAIN stack[n].values :
                      a # b => stack[n].values[a] # stack[n].values[b])
    /\ [][/\ \A n \in DOMAIN stack \cap DOMAIN stack' :
                /\ stack'[n].values = stack[n].values
                /\ stack'[n].k >= stack[n].k
          /\ (pc = "loop" /\ pc' = "check") =>
                assignment'[Len(assignment')][2]
                    = stack[Len(stack)].values[stack[Len(stack)].k]
          /\ (pc \in {"check", "return"} /\ pc' = "loop") =>
                stack'[Len(stack)].k = stack[Len(stack)].k + 1]_vars

\* the search is as deep as the grid has slots, in a grid of three slots,
\* having moved past a value in one of its calls
BacktrackTerminatesWitness ==
    /\ pc = "call"
    /\ Cardinality(variables) >= 3
    /\ Len(stack) = Cardinality(variables)
    /\ \E n \in DOMAIN stack : stack[n].k >= 2

\* C19: AC-3 terminates: the queue of ac3() is seeded with every ordered
\* pair (x, y) where y is a neighbour of x, it eventually becomes empty and
\* ac3 returns, and arcs are put back on it only by a revise that strictly
\* shrinks a domain.
Ac3Terminates ==
    /\ (pc = "ac3") ~> (arcs = <<>> /\ ac3ret # "unset")
    /\ [][(pc = "ac3" /\ pc' = "ac3_loop") =>
             /\ {arcs'[k] : k \in DOMAIN arcs'}
                   = {xy \in variables \X variables : xy[2] \in neighbors(xy[1])}
             /\ \A a, b \in DOMAIN arcs' : a # b => arcs'[a] # arcs'[b]]_vars
    /\ [][(pc = "ac3_loop" /\ pc' = "ac3_loop" /\ Len(arcs') >= Len(arcs)) =>
             \E x \in variables :
                 /\ domains'[x] \subseteq domains[x]
                 /\ domains'[x] # domains[x]]_vars

\* ac3 has returned after a revise that shrank a domain and put arcs back
Ac3TerminatesWitness ==
    /\ pc = "call"
    /\ stack = <<>>
    /\ ac3ret # "unset"
    /\ arcs = <<>>
    /\ \E x \in variables :
          /\ neighbors(x) # {}
          /\ domains[x] # {w \in words : Len(w) = x.length}

\* C20: AC-3 preserves solutions: every complete assignment that satisfies
\* the constraints (lengths, no word twice, overlaps) keeps each of its
\* words in the domain of its slot after every turn of the loop of ac3() and
\* when ac3() has returned; no revise removes a word that takes part in a
\* solution.
Ac3PreservesSolutions ==
    (pc = "ac3_loop" \/ (pc = "call" /\ stack = <<>>)) =>
        \A f \in [variables -> words] :
            Satisfies(AsDict(f)) => \A s \in variables : f[s] \in domains[s]

\* ac3 has returned, it removed a word of the right length from a domain,
\* and the puzzle has a solution
Ac3PreservesSolutionsWitness ==
    /\ pc = "call"
    /\ stack = <<>>
    /\ SolutionExists
    /\ \E x \in variables : domains[x] # {w \in words : Len(w) = x.length}

====
